---- MODULE Spec2Model ----
(***************************************************************************)
(* A model of tests/test_smoke.py of xortool-rs: the differential-testing  *)
(* harness that runs the Rust xortool and the Python xortool on the same   *)
(* input and compares their results.                                       *)
(*                                                                         *)
(* Five specifications share the module:                                    *)
(*   SpecHex     hexdump_sim applied to bounded byte sequences             *)
(*   SpecDir     compare_dir_contents applied to pairs of directory trees  *)
(*   SpecOracle  binary_xored_ok applied to output directories             *)
(*   Spec        one pytest session running the three parametrized tests   *)
(*               row by row (compare_xortool_to_py and the oracles)        *)
(*   SpecPar     two test items running interleaved in distinct tmp_paths  *)
(*                                                                         *)
(* Bytes are natural numbers 0..255.  The text hexdump_sim builds is a     *)
(* sequence of one-character strings.  A path is a sequence of components; *)
(* a file name is a record [stem, suffix] as pathlib splits it.            *)
(***************************************************************************)
EXTENDS Integers, Sequences, FiniteSets, TLC

VARIABLES
    \* hexdump_sim
    contents, result, hpc,
    \* the interpreter and the process's current directory
    globFiles, cwdDirs,
    \* compare_dir_contents
    dir1, dir2, cmp,
    \* binary_xored_ok
    check_dir, ok,
    \* the pytest session
    cases, nextItem, fs, pc, item, workdir, stdin,
    rust_result, py_result, rsOut, pyOut, outcome, error, touched

hexVars == <<contents, result, hpc>>
envVars == <<globFiles, cwdDirs>>
dirVars == <<dir1, dir2, cmp>>
oracleVars == <<check_dir, ok>>
runVars == <<cases, nextItem, fs, pc, item, workdir, stdin,
             rust_result, py_result, rsOut, pyOut, outcome, error, touched>>
vars == <<hexVars, envVars, dirVars, oracleVars, runVars>>

(***************************************************************************)
(* Bounds                                                                  *)
(***************************************************************************)
MaxHexLen == 33
MaxFileLen == 1
MaxArtifactLen == 2

(***************************************************************************)
(* hexdump_sim                                                             *)
(***************************************************************************)
HexDigits == <<"0", "1", "2", "3", "4", "5", "6", "7",
               "8", "9", "a", "b", "c", "d", "e", "f">>

\* f"{byte:02x}"
Format02x(byte) == <<HexDigits[(byte \div 16) + 1], HexDigits[(byte % 16) + 1]>>

Spaces(n) == [k \in 1..n |-> " "]

\* The separator chosen at lines 44-49.
End(i) ==
    IF i = 7 THEN <<" ", " ">>
    ELSE IF i = 15 THEN <<" ", "\n">>
    ELSE <<" ">>

\* The for loop of lines 43-51 from position k on: [result, i] after it.
RECURSIVE HexLoop(_, _, _, _)
HexLoop(bytes, k, i, acc) ==
    IF k > Len(bytes) THEN [result |-> acc, i |-> i]
    ELSE HexLoop(bytes, k + 1, (i + 1) % 16, acc \o Format02x(bytes[k]) \o End(i))

\* A tail that pads three columns for every missing byte.
HexTailAligned(i) ==
    Spaces(3 * (16 - i) + (IF i <= 7 THEN 1 ELSE 0)) \o <<"\n">>

\* Lines 53-56: i is always below 16, so the first branch is always taken.
HexTail(i) ==
    IF i # 16 THEN Spaces(16 - i) \o <<" ", "\n">>
    ELSE <<" ", "\n">>

hexdump_sim(bytes) ==
    LET loop == HexLoop(bytes, 1, 0, <<>>)
    IN  loop.result \o HexTail(loop.i)

\* The byte sequences the function is applied to.
HexSeeds == {1, 37, 255}
HexBytes(len, seed) == [k \in 1..len |-> (seed * k + 3 * seed) % 256]
HexInputs == {HexBytes(len, seed) : len \in 0..MaxHexLen, seed \in HexSeeds}

\* Rows of a text: a row ends at a "\n" and starts after the one before.
Newlines(text) == {k \in 1..Len(text) : text[k] = "\n"}
RowEndingAt(text, k) ==
    LET before == {0} \cup {j \in Newlines(text) : j < k}
        start == CHOOSE j \in before : \A m \in before : m <= j
    IN  SubSeq(text, start + 1, k)
FirstRow(text) ==
    RowEndingAt(text, CHOOSE k \in Newlines(text) : \A m \in Newlines(text) : k <= m)
LastRow(text) == RowEndingAt(text, Len(text))
NewlineCount(text) == Cardinality(Newlines(text))
CeilDiv(a, b) == (a + b - 1) \div b

HexIdle == contents = <<>> /\ result = <<>> /\ hpc = "off"

HexInit == contents \in HexInputs /\ result = <<>> /\ hpc = "call"

HexdumpSim ==
    /\ hpc = "call"
    /\ result' = hexdump_sim(contents)
    /\ hpc' = "returned"
    /\ UNCHANGED <<contents, envVars, dirVars, oracleVars, runVars>>

(***************************************************************************)
(* Directory trees                                                         *)
(***************************************************************************)
Name(stem, suffix) == [stem |-> stem, suffix |-> suffix]
FileEntry(bytes) == [kind |-> "file", bytes |-> bytes]
DirEntry == [kind |-> "dir", bytes |-> <<>>]

NoEntries == [p \in {} |-> DirEntry]
\* A directory that does not exist, and one that does: entries maps every
\* path below the root (a nonempty sequence of names) to what is there.
ABSENT == [exists |-> FALSE, entries |-> NoEntries]
Directory(entries) == [exists |-> TRUE, entries |-> entries]

Parent(p) == SubSeq(p, 1, Len(p) - 1)

BytesUpTo(alphabet, n) == UNION {[1..k -> alphabet] : k \in 0..n}

(***************************************************************************)
(* compare_dir_contents                                                    *)
(***************************************************************************)
\* dir.glob("**") made relative to dir.  Up to Python 3.12 the pattern
\* yields the directory itself and its subdirectories only; from 3.13 on it
\* yields the files too.  A directory that does not exist yields nothing.
GlobRecursive(dir, files_too) ==
    IF ~dir.exists THEN {}
    ELSE {<<>>} \cup {p \in DOMAIN dir.entries :
                         files_too \/ dir.entries[p].kind = "dir"}

\* file.is_dir() at line 72: file is the RELATIVE path, so the test is made
\* against the process's current directory; Path(".") is a directory.
RelIsDir(cwd, file) == file = <<>> \/ file \in cwd

\* One iteration of the loop of lines 71-75.
CompareFile(d1, d2, cwd, file) ==
    IF RelIsDir(cwd, file) THEN "ok"
    ELSE IF d1.entries[file].kind = "dir" THEN "IsADirectoryError"
    ELSE IF d2.entries[file].kind = "dir" THEN "IsADirectoryError"
    ELSE IF d1.entries[file].bytes = d2.entries[file].bytes THEN "ok"
    ELSE "AssertionError"

\* The outcomes a call can have: "pass", or the exception of the first
\* iteration that raises (a set is iterated in no particular order).
compare_dir_contents(d1, d2, cwd, files_too) ==
    LET left_rel == GlobRecursive(d1, files_too)
        right_rel == GlobRecursive(d2, files_too)
        raised == {CompareFile(d1, d2, cwd, file) : file \in left_rel} \ {"ok"}
    IN  IF left_rel # right_rel THEN {"AssertionError"}
        ELSE IF raised = {} THEN {"pass"}
        ELSE raised

\* The trees the comparator is applied to: a, d, d/a, each absent, a file or
\* a directory.
A == Name("a", "")
D == Name("d", "")
CandidatePaths == {<<A>>, <<D>>, <<D, A>>}
PrefixClosed(S) == \A p \in S : Len(p) > 1 => Parent(p) \in S
TreeEntryValues == {DirEntry} \cup {FileEntry(b) : b \in BytesUpTo({0, 1}, MaxFileLen)}
TreeEntries ==
    {f \in UNION {[S -> TreeEntryValues] : S \in SUBSET CandidatePaths} :
        \A p \in DOMAIN f :
            Len(p) > 1 => Parent(p) \in DOMAIN f /\ f[Parent(p)].kind = "dir"}
Trees == {ABSENT} \cup {Directory(f) : f \in TreeEntries}
CwdChoices == {S \in SUBSET CandidatePaths : PrefixClosed(S)}

EnvIdle == globFiles = FALSE /\ cwdDirs = {}
DirIdle == dir1 = ABSENT /\ dir2 = ABSENT /\ cmp = "off"

DirInit ==
    /\ dir1 \in Trees
    /\ dir2 \in Trees
    /\ cmp = "call"
    /\ globFiles \in BOOLEAN
    /\ cwdDirs \in CwdChoices

CompareDirContents ==
    /\ cmp = "call"
    /\ \E o \in compare_dir_contents(dir1, dir2, cwdDirs, globFiles) : cmp' = o
    /\ UNCHANGED <<dir1, dir2, envVars, hexVars, oracleVars, runVars>>

(***************************************************************************)
(* The semantic oracles.  File contents are real byte strings (ASCII       *)
(* codes); a decoded text is the sequence of its code points.              *)
(***************************************************************************)
\* "b'secret_key" (line 190)
SECRET_KEY ==
    <<98, 39, 115, 101, 99, 114, 101, 116, 95, 107, 101, 121>>

\* "b'really long s3cr3t k3y... PADDING'" (line 217)
LS_KEY ==
    <<98, 39, 114, 101, 97, 108, 108, 121, 32, 108, 111, 110, 103, 32,
    115, 51, 99, 114, 51, 116, 32, 107, 51, 121, 46, 46, 46, 32, 80, 65,
    68, 68, 73, 78, 71, 39>>

\* the 19 characters b'\\xde\\xad\\xbe\\xef' (line 244)
TEXT_KEY ==
    <<98, 39, 92, 120, 100, 101, 92, 120, 97, 100, 92, 120, 98, 101, 92,
    120, 101, 102, 39>>

\* b"Free Software Foundation, Inc" (lines 195, 222)
FSF ==
    <<70, 114, 101, 101, 32, 83, 111, 102, 116, 119, 97, 114, 101, 32, 70,
    111, 117, 110, 100, 97, 116, 105, 111, 110, 44, 32, 73, 110, 99>>

\* b"List of known bugs" (line 248)
KNOWN_BUGS ==
    <<76, 105, 115, 116, 32, 111, 102, 32, 107, 110, 111, 119, 110, 32,
    98, 117, 103, 115>>

\* needle in haystack
OccursAt(needle, hay, k) ==
    /\ k + Len(needle) - 1 <= Len(hay)
    /\ \A j \in 1..Len(needle) : hay[k + j - 1] = needle[j]

Contains(needle, hay) == \E k \in 1..(Len(hay) + 1) : OccursAt(needle, hay, k)

\* bytes.count(needle): occurrences found left to right, not overlapping.
RECURSIVE CountFrom(_, _, _)
CountFrom(needle, hay, k) ==
    IF k + Len(needle) - 1 > Len(hay) THEN 0
    ELSE IF OccursAt(needle, hay, k) THEN 1 + CountFrom(needle, hay, k + Len(needle))
    ELSE CountFrom(needle, hay, k + 1)

Count(needle, hay) == CountFrom(needle, hay, 1)

\* Bytes that occur in no UTF-8 text; the files of the model hold ASCII
\* bytes and these.
NeverUtf8 == {192, 193} \cup (245..255)

\* (check_dir / "filename-key.csv").read_text(): the text, or the exception.
KEY_CSV == <<Name("filename-key", ".csv")>>
ReadText(dir, p) ==
    IF p \notin DOMAIN dir.entries THEN [err |-> "FileNotFoundError", text |-> <<>>]
    ELSE IF dir.entries[p].kind = "dir" THEN [err |-> "IsADirectoryError", text |-> <<>>]
    ELSE IF \E k \in 1..Len(dir.entries[p].bytes) : dir.entries[p].bytes[k] \in NeverUtf8
         THEN [err |-> "UnicodeDecodeError", text |-> <<>>]
    ELSE [err |-> "none", text |-> dir.entries[p].bytes]

\* check_dir.glob("*") and check_dir.glob("*.out"): the direct children.
GlobStar(dir) == {p \in DOMAIN dir.entries : Len(p) = 1}
GlobOut(dir) == {p \in GlobStar(dir) : p[1].suffix = ".out"}

\* The test on the number of matching artifacts alone.
CountsOkLenOnly(counts) == Cardinality({f \in DOMAIN counts : counts[f] > 0}) = 1

\* len(counts) == 1 and list(counts.values())[0] == 1, lines 196-198: the
\* second test is reached only when the first holds (and short-circuits).
CountsOk(counts) ==
    LET positive == {f \in DOMAIN counts : counts[f] > 0}
    IN  /\ Cardinality(positive) = 1
        /\ \A f \in positive : counts[f] = 1

\* The oracle without the guard of lines 185-186.
binary_xored_ok_unguarded(dir) ==
    LET csv == ReadText(dir, KEY_CSV)
        outs == GlobOut(dir)
        counts == [f \in outs |-> Count(FSF, dir.entries[f].bytes)]
    IN  IF csv.err # "none" THEN csv.err
        ELSE IF \E f \in outs : dir.entries[f].kind = "dir" THEN "IsADirectoryError"
        ELSE IF Contains(SECRET_KEY, csv.text) /\ CountsOk(counts) THEN "True"
        ELSE "False"

\* binary_xored_ok: "True", "False", or the exception it raises.
binary_xored_ok(dir) ==
    IF ~dir.exists THEN "False"
    ELSE LET csv == ReadText(dir, KEY_CSV)
             outs == GlobOut(dir)
             counts == [f \in outs |-> Count(FSF, dir.entries[f].bytes)]
         IN  IF csv.err # "none" THEN csv.err
             ELSE IF \E f \in outs : dir.entries[f].kind = "dir" THEN "IsADirectoryError"
             ELSE IF Contains(SECRET_KEY, csv.text) /\ CountsOk(counts) THEN "True"
             ELSE "False"

\* ls_xored_ok and text_xored_ok, which differ in the two needles: the set
\* of outcomes, because any() stops at the first file that matches or at
\* the first child that is a directory, in the order glob yields them.
AnyOracle(dir, key, needle) ==
    IF ~dir.exists THEN {"False"}
    ELSE LET csv == ReadText(dir, KEY_CSV)
             children == GlobStar(dir)
             subdirs == {f \in children : dir.entries[f].kind = "dir"}
             matches == {f \in children \ subdirs : Contains(needle, dir.entries[f].bytes)}
         IN  IF csv.err # "none" THEN {csv.err}
             ELSE IF ~Contains(key, csv.text) THEN {"False"}
             ELSE IF matches = {} /\ subdirs = {} THEN {"False"}
             ELSE {"True" : f \in matches} \cup {"IsADirectoryError" : f \in subdirs}

ls_xored_ok(dir) == AnyOracle(dir, LS_KEY, FSF)
text_xored_ok(dir) == AnyOracle(dir, TEXT_KEY, KNOWN_BUGS)

\* The output directories binary_xored_ok is applied to.  A file is a
\* concatenation of at most MaxArtifactLen blocks.
RECURSIVE Flatten(_)
Flatten(blocks) ==
    IF blocks = <<>> THEN <<>> ELSE Head(blocks) \o Flatten(Tail(blocks))

Filler == <<120>>
Undecodable == <<255>>
BlockFiles(blocks) == {FileEntry(Flatten(bs)) : bs \in BytesUpTo(blocks, MaxArtifactLen)}
OUT0 == <<Name("0", ".out")>>
OUT1 == <<Name("1", ".out")>>
NOTES == <<Name("notes", ".txt")>>
Choices(p, entries) == {NoEntries} \cup {[q \in {p} |-> e] : e \in entries}
Merge(f, g) == [p \in DOMAIN f \cup DOMAIN g |-> IF p \in DOMAIN f THEN f[p] ELSE g[p]]
OracleDirs ==
    {ABSENT} \cup
    {Directory(Merge(Merge(c, n), Merge(o0, o1))) :
        c \in Choices(KEY_CSV, {DirEntry} \cup BlockFiles({SECRET_KEY, Filler, Undecodable})),
        n \in Choices(NOTES, {FileEntry(FSF)}),
        o0 \in Choices(OUT0, {DirEntry} \cup BlockFiles({FSF, Filler})),
        o1 \in Choices(OUT1, {DirEntry} \cup BlockFiles({FSF, Filler}))}

OracleIdle == check_dir = ABSENT /\ ok = "off"
OracleInit == check_dir \in OracleDirs /\ ok = "call"

BinaryXoredOk ==
    /\ ok = "call"
    /\ ok' = binary_xored_ok(check_dir)
    /\ UNCHANGED <<check_dir, envVars, hexVars, dirVars, runVars>>

(***************************************************************************)
(* The scenario catalogs.  A str is the sequence of the pieces between its *)
(* "/" characters, so an absolute path starts with the empty piece.        *)
(***************************************************************************)
None == <<>>
Row(args, stdin_path, ok_func_result) ==
    [args |-> args, stdin |-> stdin_path, ok_func_result |-> ok_func_result]
TextRow(args, ok_func_result) == [args |-> args, ok_func_result |-> ok_func_result]

binary_xored_cases ==
    <<
    Row(<<<<"--hex">>, <<"-b">>>>,
        <<"test", "data", "binary_xored">>, TRUE),
    Row(<<<<"-x">>, <<"-l">>, <<"10">>, <<"-c">>, <<"00">>>>,
        <<"test", "data", "binary_xored">>, TRUE),
    Row(<<<<"-x">>, <<"test", "data", "binary_xored">>>>,
        None, FALSE),
    Row(<<<<"--hex">>, <<"test", "data", "binary_xored">>>>,
        None, FALSE),
    Row(<<<<"-c">>, <<"00">>, <<"test", "data", "binary_xored">>>>,
        None, TRUE),
    Row(<<<<"--char=00">>, <<"test", "data", "binary_xored">>>>,
        None, TRUE),
    Row(<<<<"-b">>, <<"test", "data", "binary_xored">>>>,
        None, TRUE),
    Row(<<<<"-b">>, <<"-l">>, <<"10">>, <<"test", "data", "binary_xored">>>>,
        None, TRUE),
    Row(<<<<"--brute-chars">>, <<"--key-length=10">>, <<"test", "data", "binary_xored">>>>,
        None, TRUE),
    Row(<<<<"-c">>, <<"00">>, <<"--key-length=10">>, <<"test", "data", "binary_xored">>>>,
        None, TRUE),
    Row(<<<<"-b">>, <<"--max-keylen=9">>, <<"test", "data", "binary_xored">>>>,
        None, FALSE),
    Row(<<<<"-b">>, <<"--key-length=16">>, <<"test", "data", "binary_xored">>>>,
        None, FALSE),
    Row(<<<<"-o">>, <<"test", "data", "binary_xored">>>>,
        None, FALSE),
    Row(<<<<"--brute-printable">>, <<"test", "data", "binary_xored">>>>,
        None, FALSE)
    >>

ls_xored_cases ==
    <<
    Row(<<<<"--hex">>, <<"-b">>>>,
        <<"test", "data", "ls_xored">>, TRUE),
    Row(<<<<"-x">>, <<"-l">>, <<"33">>, <<"-c">>, <<"00">>>>,
        <<"test", "data", "ls_xored">>, TRUE),
    Row(<<<<"-x">>, <<"test", "data", "ls_xored">>>>,
        None, FALSE),
    Row(<<<<"--hex">>, <<"test", "data", "ls_xored">>>>,
        None, FALSE),
    Row(<<<<"-c">>, <<"00">>, <<"test", "data", "ls_xored">>>>,
        None, TRUE),
    Row(<<<<"--char=00">>, <<"test", "data", "ls_xored">>>>,
        None, TRUE),
    Row(<<<<"-b">>, <<"test", "data", "ls_xored">>>>,
        None, TRUE),
    Row(<<<<"-b">>, <<"-l">>, <<"33">>, <<"test", "data", "ls_xored">>>>,
        None, TRUE),
    Row(<<<<"--brute-chars">>, <<"--key-length=33">>, <<"test", "data", "ls_xored">>>>,
        None, TRUE),
    Row(<<<<"-c">>, <<"00">>, <<"--key-length=33">>, <<"test", "data", "ls_xored">>>>,
        None, TRUE),
    Row(<<<<"-b">>, <<"--max-keylen=32">>, <<"test", "data", "ls_xored">>>>,
        None, FALSE),
    Row(<<<<"-b">>, <<"--key-length=35">>, <<"test", "data", "ls_xored">>>>,
        None, FALSE),
    Row(<<<<"-o">>, <<"test", "data", "ls_xored">>>>,
        None, FALSE),
    Row(<<<<"--brute-printable">>, <<"test", "data", "ls_xored">>>>,
        None, FALSE)
    >>

text_xored_cases ==
    <<
    TextRow(<<<<"-o">>, <<"test", "data", "text_xored">>>>,
        TRUE),
    TextRow(<<<<"-o">>, <<"-t">>, <<"printable">>, <<"test", "data", "text_xored">>>>,
        TRUE),
    TextRow(<<<<"-o">>, <<"-t">>, <<"base32">>, <<"test", "data", "text_xored">>>>,
        TRUE),
    TextRow(<<<<"-o">>, <<"-t">>, <<"base64">>, <<"test", "data", "text_xored">>>>,
        TRUE),
    TextRow(<<<<"-o">>, <<"-t">>, <<"a">>, <<"test", "data", "text_xored">>>>,
        TRUE),
    TextRow(<<<<"-o">>, <<"-t">>, <<"A">>, <<"test", "data", "text_xored">>>>,
        TRUE),
    TextRow(<<<<"-o">>, <<"-t">>, <<"1">>, <<"test", "data", "text_xored">>>>,
        TRUE),
    TextRow(<<<<"-o">>, <<"-t">>, <<"!">>, <<"test", "data", "text_xored">>>>,
        TRUE),
    TextRow(<<<<"-o">>, <<"-t">>, <<"*">>, <<"test", "data", "text_xored">>>>,
        TRUE),
    TextRow(<<<<"-o">>, <<"-t">>, <<"Z">>, <<"test", "data", "text_xored">>>>,
        FALSE),
    TextRow(<<<<"-o">>, <<"-t">>, <<"">>, <<"test", "data", "text_xored">>>>,
        TRUE)
    >>

\* The module-level lists as they are when the module has been imported.
Catalog ==
    [binary |-> binary_xored_cases, ls |-> ls_xored_cases, text |-> text_xored_cases]

\* The test items in the order pytest collects them.
Items ==
    [k \in 1..Len(binary_xored_cases) |-> [test |-> "binary", index |-> k]] \o
    [k \in 1..Len(ls_xored_cases) |-> [test |-> "ls", index |-> k]] \o
    [k \in 1..Len(text_xored_cases) |-> [test |-> "text", index |-> k]]
NoItem == [test |-> "none", index |-> 0]

\* Path(p).resolve() and str() of it: a relative path is joined to the
\* current directory of the pytest process, an absolute one is kept.
CwdPath == <<"", "repo">>
IsAbsolute(p) == Len(p) > 1 /\ p[1] = ""
Resolve(p) == IF IsAbsolute(p) THEN p ELSE CwdPath \o p

\* args[-1] = str(Path(args[-1]).resolve()), lines 330, 359 and 381.
ResolveLast(args) == [args EXCEPT ![Len(args)] = Resolve(args[Len(args)])]

\* str.encode("utf-8") of a hex dump (line 144): its characters are ASCII.
CharCode(c) ==
    CASE c = " " -> 32 [] c = "\n" -> 10
      [] c = "0" -> 48 [] c = "1" -> 49 [] c = "2" -> 50 [] c = "3" -> 51
      [] c = "4" -> 52 [] c = "5" -> 53 [] c = "6" -> 54 [] c = "7" -> 55
      [] c = "8" -> 56 [] c = "9" -> 57 [] c = "a" -> 97 [] c = "b" -> 98
      [] c = "c" -> 99 [] c = "d" -> 100 [] c = "e" -> 101 [] c = "f" -> 102
Encode(text) == [k \in 1..Len(text) |-> CharCode(text[k])]

\* The bytes of the fixture files under test/data, which every row reads.
FixtureBytes == HexBytes(17, 37)

(***************************************************************************)
(* The file system below the tmp_path directories                          *)
(***************************************************************************)
Runs == {1, 2}
Workdirs == {1, 2}
OutNames == {"xortool_out", "xortool_out_rs", "xortool_out_py"}
FsPaths == {<<w, n>> : w \in Workdirs, n \in OutNames}

\* An output path that is not taken below workdir.
xortool_out_shared(w) == <<1, "xortool_out">>

\* Lines 145-147.
xortool_out(w) == <<w, "xortool_out">>
xortool_out_rs(w) == <<w, "xortool_out_rs">>
xortool_out_py(w) == <<w, "xortool_out_py">>

\* Where a tool started with cwd=workdir (lines 124, 161) writes its output.
ToolOutDir(w) == <<w, "xortool_out">>

\* shutil.move(src, dst) of a directory: a rename when dst does not exist,
\* a move into dst when dst is a directory.
Nested(name, dir) ==
    [p \in {<<name>>} \cup {<<name>> \o q : q \in DOMAIN dir.entries} |->
        IF p = <<name>> THEN DirEntry ELSE dir.entries[Tail(p)]]
Move(fsys, src, dst) ==
    [fsys EXCEPT
        ![dst] = IF fsys[dst].exists
                 THEN Directory(Merge(fsys[dst].entries,
                                      Nested(Name("xortool_out", ""), fsys[src])))
                 ELSE fsys[src],
        ![src] = ABSENT]

\* if xortool_out.exists(): shutil.move(xortool_out, tagged)
MoveIfExists(fsys, src, dst) == IF fsys[src].exists THEN Move(fsys, src, dst) ELSE fsys

(***************************************************************************)
(* What one run of a tool can do                                           *)
(***************************************************************************)
ExecutionResult(returncode, out, err) ==
    [returncode |-> returncode, stdout |-> out, stderr |-> err]
NoResult == [returncode |-> -1, stdout |-> <<>>, stderr |-> <<>>]
ToolOutput(res, dir) == [res |-> res, dir |-> dir]

SUB == <<Name("sub", "")>>
File(p, bytes) == [q \in {p} |-> FileEntry(bytes)]
BinaryGood == Directory(Merge(File(KEY_CSV, SECRET_KEY), File(OUT0, FSF)))
LsGood == Directory(Merge(File(KEY_CSV, LS_KEY), File(OUT0, FSF)))
TextGood == Directory(Merge(File(KEY_CSV, TEXT_KEY), File(OUT0, KNOWN_BUGS)))
NoMatch == Directory(Merge(File(KEY_CSV, SECRET_KEY), File(OUT0, Filler)))
WithSubdir == Directory(Merge(File(KEY_CSV, SECRET_KEY), [q \in {SUB} |-> DirEntry]))

Results ==
    {ExecutionResult(0, <<>>, <<>>), ExecutionResult(1, <<>>, <<>>),
     ExecutionResult(0, Filler, <<>>), ExecutionResult(0, <<>>, Filler)}
SeqOutputs ==
    {ToolOutput(res, dir) :
        res \in Results,
        dir \in {ABSENT, BinaryGood, LsGood, TextGood, NoMatch, WithSubdir}}
ParOutputs ==
    {ToolOutput(res, dir) :
        res \in {ExecutionResult(0, <<>>, <<>>), ExecutionResult(1, <<>>, <<>>)},
        dir \in {ABSENT, BinaryGood}}

\* The directories of the repository root, where pytest is started.
RepoDirs == {<<Name("test", "")>>, <<Name("test", ""), Name("data", "")>>,
             <<Name("src", "")>>}

(***************************************************************************)
(* compare_xortool_to_py and the three parametrized tests, step by step    *)
(***************************************************************************)
RowOf(cs, it) == cs[it.test][it.index]
HasStdin(it) == it.test # "text"
NoError == [at |-> "", exc |-> ""]

\* The assertions without the one on stderr.
ResultsEqualNoStderr(py, rust) ==
    /\ py.returncode = rust.returncode
    /\ py.stdout = rust.stdout

\* Lines 165-167.
ResultsEqual(py, rust) ==
    /\ py.returncode = rust.returncode
    /\ py.stdout = rust.stdout
    /\ py.stderr = rust.stderr

\* The oracle a test applies at lines 333, 362, 383: its possible outcomes.
OracleOutcomes(test, dir) ==
    CASE test = "binary" -> {binary_xored_ok(dir)}
      [] test = "ls" -> ls_xored_ok(dir)
      [] test = "text" -> text_xored_ok(dir)

Fail(r, at, exc) ==
    /\ pc' = [pc EXCEPT ![r] = "done"]
    /\ outcome' = [outcome EXCEPT ![r] = "failed"]
    /\ error' = [error EXCEPT ![r] = [at |-> at, exc |-> exc]]

\* pytest enters the test function with a fresh tmp_path w; lines 326-331,
\* 355-360, 381: the piped input is computed, or the last argument is
\* replaced IN THE LIST THE CATALOG HOLDS (parametrize passes the object).
TestBody(r, it, w) ==
    /\ pc[r] = "idle"
    /\ item' = [item EXCEPT ![r] = it]
    /\ workdir' = [workdir EXCEPT ![r] = w]
    /\ fs' = [p \in FsPaths |-> IF p[1] = w THEN ABSENT ELSE fs[p]]
    /\ IF HasStdin(it) /\ RowOf(cases, it).stdin # None
       THEN /\ stdin' = [stdin EXCEPT ![r] = Encode(hexdump_sim(FixtureBytes))]
            /\ UNCHANGED cases
       ELSE /\ stdin' = [stdin EXCEPT ![r] = None]
            /\ cases' = [cases EXCEPT ![it.test][it.index].args = ResolveLast(@)]
    /\ pc' = [pc EXCEPT ![r] = "run_rust"]
    /\ rust_result' = [rust_result EXCEPT ![r] = NoResult]
    /\ py_result' = [py_result EXCEPT ![r] = NoResult]
    /\ rsOut' = [rsOut EXCEPT ![r] = ABSENT]
    /\ pyOut' = [pyOut EXCEPT ![r] = ABSENT]
    /\ outcome' = [outcome EXCEPT ![r] = "running"]
    /\ error' = [error EXCEPT ![r] = NoError]
    /\ touched' = [touched EXCEPT ![r] = {}]
    /\ UNCHANGED <<envVars, hexVars, dirVars, oracleVars>>

\* The session takes the next item of the collection.
TestStart(r) ==
    /\ nextItem <= Len(Items)
    /\ nextItem' = nextItem + 1
    /\ TestBody(r, Items[nextItem], 1)

\* Line 149: run_rust_cmd in workdir; the tool may write ./xortool_out.
RunRust(r, outputs) ==
    /\ pc[r] = "run_rust"
    /\ \E out \in outputs :
        /\ rust_result' = [rust_result EXCEPT ![r] = out.res]
        /\ rsOut' = [rsOut EXCEPT ![r] = out.dir]
        /\ fs' = IF out.dir.exists
                 THEN [fs EXCEPT ![ToolOutDir(workdir[r])] = out.dir]
                 ELSE fs
    /\ touched' = [touched EXCEPT ![r] = @ \cup {ToolOutDir(workdir[r])[1]}]
    /\ pc' = [pc EXCEPT ![r] = "move_rs"]
    /\ UNCHANGED <<cases, nextItem, item, workdir, stdin, py_result, pyOut,
                   outcome, error, envVars, hexVars, dirVars, oracleVars>>

\* Lines 150-151.
MoveRs(r) ==
    /\ pc[r] = "move_rs"
    /\ fs' = MoveIfExists(fs, xortool_out(workdir[r]), xortool_out_rs(workdir[r]))
    /\ touched' = [touched EXCEPT ![r] =
            @ \cup {xortool_out(workdir[r])[1], xortool_out_rs(workdir[r])[1]}]
    /\ pc' = [pc EXCEPT ![r] = "run_py"]
    /\ UNCHANGED <<cases, nextItem, item, workdir, stdin, rust_result, py_result,
                   rsOut, pyOut, outcome, error, envVars, hexVars, dirVars, oracleVars>>

\* The Python run followed at once by the move of its output.
RunPyThenMove(r, outputs) ==
    /\ pc[r] = "run_py"
    /\ \E out \in outputs :
        /\ py_result' = [py_result EXCEPT ![r] = out.res]
        /\ pyOut' = [pyOut EXCEPT ![r] = out.dir]
        /\ fs' = MoveIfExists(IF out.dir.exists
                               THEN [fs EXCEPT ![ToolOutDir(workdir[r])] = out.dir]
                               ELSE fs,
                               xortool_out(workdir[r]), xortool_out_py(workdir[r]))
    /\ touched' = [touched EXCEPT ![r] = @ \cup {ToolOutDir(workdir[r])[1]}]
    /\ pc' = [pc EXCEPT ![r] = "assert_results"]
    /\ UNCHANGED <<cases, nextItem, item, workdir, stdin, rust_result, rsOut,
                   outcome, error, envVars, hexVars, dirVars, oracleVars>>

\* Lines 153-162: the Python tool in the same workdir.
RunPy(r, outputs) ==
    /\ pc[r] = "run_py"
    /\ \E out \in outputs :
        /\ py_result' = [py_result EXCEPT ![r] = out.res]
        /\ pyOut' = [pyOut EXCEPT ![r] = out.dir]
        /\ fs' = IF out.dir.exists
                 THEN [fs EXCEPT ![ToolOutDir(workdir[r])] = out.dir]
                 ELSE fs
    /\ touched' = [touched EXCEPT ![r] = @ \cup {ToolOutDir(workdir[r])[1]}]
    /\ pc' = [pc EXCEPT ![r] = "assert_results"]
    /\ UNCHANGED <<cases, nextItem, item, workdir, stdin, rust_result, rsOut,
                   outcome, error, envVars, hexVars, dirVars, oracleVars>>

\* Lines 165-167: the three assertions on the two results.
AssertResults(r) ==
    /\ pc[r] = "assert_results"
    /\ IF ResultsEqual(py_result[r], rust_result[r])
       THEN /\ pc' = [pc EXCEPT ![r] = "move_py"]
            /\ UNCHANGED <<outcome, error>>
       ELSE Fail(r, "assert_results", "AssertionError")
    /\ UNCHANGED <<cases, nextItem, fs, item, workdir, stdin, rust_result, py_result,
                   rsOut, pyOut, touched, envVars, hexVars, dirVars, oracleVars>>

\* Lines 169-170.
MovePy(r) ==
    /\ pc[r] = "move_py"
    /\ fs' = MoveIfExists(fs, xortool_out(workdir[r]), xortool_out_py(workdir[r]))
    /\ touched' = [touched EXCEPT ![r] =
            @ \cup {xortool_out(workdir[r])[1], xortool_out_py(workdir[r])[1]}]
    /\ pc' = [pc EXCEPT ![r] = "compare_dirs"]
    /\ UNCHANGED <<cases, nextItem, item, workdir, stdin, rust_result, py_result,
                   rsOut, pyOut, outcome, error, envVars, hexVars, dirVars, oracleVars>>

\* Line 172.
CompareDirs(r) ==
    /\ pc[r] = "compare_dirs"
    /\ \E o \in compare_dir_contents(fs[xortool_out_py(workdir[r])],
                                     fs[xortool_out_rs(workdir[r])],
                                     cwdDirs, globFiles) :
        IF o = "pass"
        THEN /\ pc' = [pc EXCEPT ![r] = "oracle"]
             /\ UNCHANGED <<outcome, error>>
        ELSE Fail(r, "compare_dirs", o)
    /\ touched' = [touched EXCEPT ![r] =
            @ \cup {xortool_out_py(workdir[r])[1], xortool_out_rs(workdir[r])[1]}]
    /\ UNCHANGED <<cases, nextItem, fs, item, workdir, stdin, rust_result, py_result,
                   rsOut, pyOut, envVars, hexVars, dirVars, oracleVars>>

\* Lines 333, 362, 383: assert <oracle>(tmp_path / "xortool_out_rs") == ok_func_result
AssertOracle(r) ==
    /\ pc[r] = "oracle"
    /\ \E o \in OracleOutcomes(item[r].test, fs[<<workdir[r], "xortool_out_rs">>]) :
        IF o \notin {"True", "False"} THEN Fail(r, "oracle", o)
        ELSE IF (o = "True") = RowOf(cases, item[r]).ok_func_result
        THEN /\ pc' = [pc EXCEPT ![r] = "done"]
             /\ outcome' = [outcome EXCEPT ![r] = "passed"]
             /\ UNCHANGED error
        ELSE Fail(r, "oracle", "AssertionError")
    /\ touched' = [touched EXCEPT ![r] = @ \cup {workdir[r]}]
    /\ UNCHANGED <<cases, nextItem, fs, item, workdir, stdin, rust_result, py_result,
                   rsOut, pyOut, envVars, hexVars, dirVars, oracleVars>>

\* The test function has returned or raised; pytest reports it and goes on.
TestEnd(r) ==
    /\ pc[r] = "done"
    /\ pc' = [pc EXCEPT ![r] = "idle"]
    /\ UNCHANGED <<cases, nextItem, fs, item, workdir, stdin, rust_result, py_result,
                   rsOut, pyOut, outcome, error, touched,
                   envVars, hexVars, dirVars, oracleVars>>

RunIdle ==
    /\ cases = Catalog
    /\ nextItem = 1
    /\ fs = [p \in FsPaths |-> ABSENT]
    /\ pc = [r \in Runs |-> "idle"]
    /\ item = [r \in Runs |-> NoItem]
    /\ workdir = [r \in Runs |-> r]
    /\ stdin = [r \in Runs |-> None]
    /\ rust_result = [r \in Runs |-> NoResult]
    /\ py_result = [r \in Runs |-> NoResult]
    /\ rsOut = [r \in Runs |-> ABSENT]
    /\ pyOut = [r \in Runs |-> ABSENT]
    /\ outcome = [r \in Runs |-> "none"]
    /\ error = [r \in Runs |-> NoError]
    /\ touched = [r \in Runs |-> {}]

(***************************************************************************)
(* The specifications                                                      *)
(***************************************************************************)
InitHex == HexInit /\ EnvIdle /\ DirIdle /\ OracleIdle /\ RunIdle
NextHex == HexdumpSim
SpecHex == InitHex /\ [][NextHex]_vars

InitDir == HexIdle /\ DirInit /\ OracleIdle /\ RunIdle
NextDir == CompareDirContents
SpecDir == InitDir /\ [][NextDir]_vars

InitOracle == HexIdle /\ EnvIdle /\ DirIdle /\ OracleInit /\ RunIdle
NextOracle == BinaryXoredOk
SpecOracle == InitOracle /\ [][NextOracle]_vars

\* One pytest process, started in the repository root, running the items
\* one after the other.
Init ==
    /\ HexIdle /\ DirIdle /\ OracleIdle /\ RunIdle
    /\ globFiles \in BOOLEAN
    /\ cwdDirs = RepoDirs
Next ==
    \/ TestStart(1)
    \/ RunRust(1, SeqOutputs)
    \/ MoveRs(1)
    \/ RunPy(1, SeqOutputs)
    \/ AssertResults(1)
    \/ MovePy(1)
    \/ CompareDirs(1)
    \/ AssertOracle(1)
    \/ TestEnd(1)
Spec == Init /\ [][Next]_vars

\* Two test items in flight at once, each in its own tmp_path.
ParItems ==
    {[test |-> "binary", index |-> 1], [test |-> "binary", index |-> 3],
     [test |-> "text", index |-> 10]}

ParStart(r) ==
    /\ outcome[r] = "none"
    /\ UNCHANGED nextItem
    /\ \E it \in ParItems :
        /\ \A q \in Runs \ {r} : item[q] # it
        /\ TestBody(r, it, r)

InitPar == Init
NextPar ==
    \E r \in Runs :
        \/ ParStart(r)
        \/ RunRust(r, ParOutputs)
        \/ MoveRs(r)
        \/ RunPy(r, ParOutputs)
        \/ AssertResults(r)
        \/ MovePy(r)
        \/ CompareDirs(r)
        \/ AssertOracle(r)
SpecPar == InitPar /\ [][NextPar]_vars

(***************************************************************************)
(* Properties                                                              *)
(***************************************************************************)
Finished(r) == pc[r] = "done"
FailedAt(r, at) == Finished(r) /\ outcome[r] = "failed" /\ error[r].at = at

\* C1: a finished scenario whose reference and candidate results differ in
\* the exit code, in stdout or in stderr has failed, at the assertions on
\* the results, whatever the output directories hold; so a scenario passes
\* only if the three fields are equal.
C1_ProcessMatch ==
    \A r \in Runs :
        Finished(r) =>
            /\ (\/ py_result[r].returncode # rust_result[r].returncode
                \/ py_result[r].stdout # rust_result[r].stdout
                \/ py_result[r].stderr # rust_result[r].stderr)
               => FailedAt(r, "assert_results")
            /\ outcome[r] = "passed" => py_result[r] = rust_result[r]

\* A binary scenario whose two tools wrote the same good directory and whose
\* results differ in stderr only has failed.
C1_Witness ==
    /\ FailedAt(1, "assert_results")
    /\ item[1].test = "binary" /\ RowOf(cases, item[1]).ok_func_result
    /\ rsOut[1] = BinaryGood /\ pyOut[1] = BinaryGood
    /\ py_result[1].returncode = rust_result[1].returncode
    /\ py_result[1].stdout = rust_result[1].stdout
    /\ py_result[1].stderr # rust_result[1].stderr

C7_CatalogConstant == cases = Catalog

\* C10: when neither tool wrote an output directory and the results are
\* equal, the comparison of the two absent directories passes, the oracle
\* returns False without raising, and the scenario passes exactly when its
\* expected verdict is False.
C10_AbsentDirectories ==
    \A r \in Runs :
        (/\ Finished(r)
         /\ ~rsOut[r].exists /\ ~pyOut[r].exists
         /\ py_result[r] = rust_result[r]) =>
            /\ error[r].at \in {"", "oracle"}
            /\ error[r].exc \in {"", "AssertionError"}
            /\ (outcome[r] = "passed") <=> ~RowOf(cases, item[r]).ok_func_result

C10_Witness ==
    /\ Finished(1) /\ outcome[1] = "passed"
    /\ ~rsOut[1].exists /\ ~pyOut[1].exists
    /\ py_result[1] = rust_result[1]
    /\ ~RowOf(cases, item[1]).ok_func_result
    /\ \A p \in FsPaths : ~fs[p].exists

\* The verdicts a scenario can get when it runs alone in a fresh directory,
\* from what its two tool runs returned and wrote.
AloneOutcomes(it, rust, py, rdir, pdir) ==
    IF py # rust THEN {"failed"}
    ELSE LET compared == compare_dir_contents(pdir, rdir, cwdDirs, globFiles)
         IN  {"failed" : o \in compared \ {"pass"}} \cup
             {IF o \in {"True", "False"}
                 /\ (o = "True") = RowOf(Catalog, it).ok_func_result
              THEN "passed" ELSE "failed" :
                 o \in IF "pass" \in compared THEN OracleOutcomes(it.test, rdir) ELSE {}}

\* C9: with two scenarios interleaved in distinct working directories, a
\* run reads, moves and compares only below its own working directory, and
\* its verdict is the one it gets when it runs alone.
C9_Isolated ==
    \A r \in Runs :
        /\ touched[r] \subseteq {workdir[r]}
        /\ \A q \in Runs \ {r} :
              (pc[r] # "idle" /\ pc[q] # "idle") => workdir[q] \notin touched[r]
        /\ Finished(r) =>
              outcome[r] \in AloneOutcomes(item[r], rust_result[r], py_result[r],
                                           rsOut[r], pyOut[r])

C9_Witness ==
    /\ Finished(1) /\ outcome[1] = "passed"
    /\ FailedAt(2, "compare_dirs")
    /\ workdir[1] # workdir[2]
    /\ fs[xortool_out_rs(workdir[1])].exists
    /\ fs[xortool_out_rs(workdir[2])].exists

\* C3 as stated: the number of newline-terminated rows is ceil(L / 16).
C3_RowCount ==
    hpc = "returned" => NewlineCount(result) = CeilDiv(Len(contents), 16)

FullRowWidth == Len(FirstRow(hexdump_sim(HexBytes(16, 1))))
EndsWithSpaceNewline(row) ==
    Len(row) >= 2 /\ row[Len(row) - 1] = " " /\ row[Len(row)] = "\n"

Compared == cmp \notin {"off", "call"}
BothFiles(p) ==
    /\ p \in DOMAIN dir1.entries /\ p \in DOMAIN dir2.entries
    /\ dir1.entries[p].kind = "file" /\ dir2.entries[p].kind = "file"

\* C2 as stated: two trees with the same relative paths in which some
\* regular file differs in length or content do not compare equal.
C2_DetectsDifference ==
    (/\ Compared
     /\ dir1.exists /\ dir2.exists
     /\ DOMAIN dir1.entries = DOMAIN dir2.entries
     /\ \E p \in DOMAIN dir1.entries :
           BothFiles(p) /\ dir1.entries[p].bytes # dir2.entries[p].bytes)
    => cmp # "pass"

\* C8 as stated: a tree compared with an identical tree passes.
C8_Reflexive == (Compared /\ dir1 = dir2) => cmp = "pass"

Returned == ok \notin {"off", "call"}
IsRegular(dir, p) == p \in DOMAIN dir.entries /\ dir.entries[p].kind = "file"
KeyRecorded(dir) ==
    IsRegular(dir, KEY_CSV) /\ Contains(SECRET_KEY, dir.entries[KEY_CSV].bytes)
Artifacts(dir) ==
    {f \in DOMAIN dir.entries : Len(f) = 1 /\ f[1].suffix = ".out" /\ IsRegular(dir, f)}
Matching(dir) == {f \in Artifacts(dir) : Contains(FSF, dir.entries[f].bytes)}
OneArtifactOnce(dir) ==
    /\ Cardinality(Matching(dir)) = 1
    /\ \A f \in Matching(dir) : Count(FSF, dir.entries[f].bytes) = 1
Verdict(b) == IF b THEN "True" ELSE "False"

\* C5 as stated: for every existing directory the oracle returns True
\* exactly when the mapping file holds the key and one artifact holds the
\* text once, and returns False (never raises) otherwise.
C5_NeverRaises ==
    (Returned /\ check_dir.exists) =>
        ok = Verdict(KeyRecorded(check_dir) /\ OneArtifactOnce(check_dir))

\* C5 amended: that holds for a directory whose filename-key.csv is a
\* regular file of decodable text and whose *.out entries are regular
\* files; for any other existing directory the oracle raises; for a
\* directory that does not exist it returns False.
Readable(dir) ==
    /\ IsRegular(dir, KEY_CSV)
    /\ \A k \in 1..Len(dir.entries[KEY_CSV].bytes) :
          dir.entries[KEY_CSV].bytes[k] \notin NeverUtf8
    /\ \A f \in DOMAIN dir.entries :
          (Len(f) = 1 /\ f[1].suffix = ".out") => IsRegular(dir, f)
C5_TrueIffKeyAndOneArtifact ==
    Returned =>
        IF ~check_dir.exists THEN ok = "False"
        ELSE IF Readable(check_dir)
        THEN ok = Verdict(KeyRecorded(check_dir) /\ OneArtifactOnce(check_dir))
        ELSE ok \notin {"True", "False"}

\* The key is recorded and no artifact holds the text: False, no IndexError.
C5_Witness ==
    /\ Returned /\ check_dir.exists /\ Readable(check_dir)
    /\ KeyRecorded(check_dir)
    /\ Artifacts(check_dir) # {} /\ Matching(check_dir) = {}
    /\ ok = "False"

====
